---- MODULE Spec2Model ----
(***************************************************************************)
(* The relevance-first image selection graph of main.py: one run of the    *)
(* LangGraph workflow                                                      *)
(*   ingest -> approval -> {select_best | prompter -> editor/generator ->  *)
(*   reapproval loop} -> persist.                                          *)
(* Every node is one action; a node followed by a conditional edge is one  *)
(* action together with its edge function (router, after_reapproval).      *)
(*                                                                         *)
(* Scores are integers in hundredths (0.80 is 80); a weighted score is in  *)
(* units of 1e-4 (W_REL = 70 for 0.70).  An image's bytes are identified   *)
(* with their md5 fingerprint, a positive integer.  The capabilities       *)
(* (Gemini) are the environment: every call returns some text, drawn from  *)
(* the sets below.  An exception raised inside a node aborts the run:      *)
(* pc = "failed" and err names the node.                                   *)
(***************************************************************************)
EXTENDS Integers, Sequences, FiniteSets, TLC

VARIABLES
    pc,          \* the node the graph runs next; "END" or "failed" when over
    err,         \* the node whose exception aborted the run, "none" otherwise
    run_id,      \* state["run_id"], 0 until ingest sets it
    inputs,      \* state["inputs"]: raw payload items, then ingested fingerprints
    approval,    \* state["approval"]: fingerprint -> per-image verdict record
    decision,    \* state["decision"]: route, chosen, feedback
    iter_count,  \* state["iter_count"] (read as 0 while the key is absent)
    candidates,  \* state["candidates"]
    best,        \* state["best"], NoBest while the key is absent
    messages,    \* state["messages"]
    plans,       \* state["_edit_plan"], state["_gen_plan"]
    files,       \* the candidate image files under OUT_DIR: path and content
    db,          \* the four tables of the catalog database
    data,        \* node_approval's local `data` (the response after safe_json
                 \* and fail-open), visible until the next node starts
    routed,      \* the route node_approval assigned, "" before it ran
    resp_kind,   \* what safe_json made of the initial understanding response
                 \* ("None", "falsy", "nondict" or "dict"), "" before
    peer         \* the state of a second run of the program, which shares
                 \* OUT_DIR and the database with this one

vars == <<pc, err, run_id, inputs, approval, decision, iter_count, candidates,
          best, messages, plans, files, db, data, routed, resp_kind, peer>>

-----------------------------------------------------------------------------
(* Configuration, main.py lines 43-51 *)

RELEVANCE_PASS == 80
REALITY_PASS == 70
INTEGRITY_PASS == 95
MAX_ITERS == 2
W_REL == 70
W_REAL == 20
W_QUAL == 10
\* the literal 0.6 of node_approval's heuristic
HEURISTIC_EDIT == 60

(* Bounds of the model *)
MaxInputs == 2
MaxPerImage == 2

-----------------------------------------------------------------------------
(* Values *)

\* a key missing from a JSON object (dict.get falls back to its default)
Absent == -1
\* Python None where a fingerprint is expected
NoneHash == 0
\* a payload item whose bytes cannot be loaded (load_image_bytes raises)
BadItem == 0
\* Python None where a path is expected
NoPath == <<>>

HashVals == {1, 2}
Seconds == {1}

SeqsUpTo(S, n) == UNION {[1..k -> S] : k \in 0..n}

\* the payloads of the model: up to n items, each loadable or not, the
\* fingerprints numbered in the order in which they first appear
Payloads(n) ==
    {s \in SeqsUpTo(HashVals \cup {BadItem}, n) :
        \A i \in 1..Len(s) :
            s[i] > 1 => \E j \in 1..(i - 1) : s[j] = s[i] - 1}

\* x.get(k, d)
Get(v, d) == IF v = Absent THEN d ELSE v

-----------------------------------------------------------------------------
(* Responses of the understanding capability.  A per-image entry is a JSON  *)
(* object; the score profiles sit on and just under each threshold.         *)

Profile(rel, real, int, qual, verdict, reasons) ==
    [relevance |-> rel, reality |-> real, integrity |-> int, quality |-> qual,
     verdict |-> verdict, reasons |-> reasons]

Profiles ==
    { Profile(80, 70, 95, 0, "APPROVE", {}),
      Profile(100, 100, 100, 100, "APPROVE", {}),
      Profile(79, 100, 100, 100, "NEEDS_EDIT", {"off-category"}),
      Profile(80, 69, 95, 0, "NEEDS_EDIT", {"cgi look"}),
      Profile(80, 70, 94, 0, "NEEDS_EDIT", {"colour shift"}),
      Profile(80, 70, Absent, 0, "APPROVE", {}),
      Profile(60, 0, 0, 0, "NEEDS_EDIT", {"cluttered"}),
      Profile(59, 0, 0, 0, "NEEDS_COMPLETE_CHANGE", {"cluttered"}) }

Entry(h, p) ==
    [image_hash |-> h, relevance |-> p.relevance, reality |-> p.reality,
     integrity |-> p.integrity, quality |-> p.quality, verdict |-> p.verdict,
     reasons |-> p.reasons]

Entries == {Entry(h, p) : h \in HashVals, p \in Profiles}
\* an entry without the image_hash key
NoHashEntry == Entry(Absent, Profile(80, 70, 95, 0, "APPROVE", {}))

\* the 'global' object: the key absent (read as {}, so its decision is None),
\* null, or an object with a decision ("OTHER": an unknown value)
Global(kind, dec, gen_brief) == [kind |-> kind, decision |-> dec, gen_brief |-> gen_brief]
GlobalAbsent == Global("absent", "None", "None")
Globals ==
    {GlobalAbsent, Global("null", "None", "None")}
        \cup {Global("dict", d, "None") :
                d \in {"APPROVED", "NEEDS_EDIT", "NEEDS_COMPLETE_CHANGE", "OTHER"}}

\* the per-image entries of a re-evaluation response (one image was sent)
CandProfiles ==
    { Profile(80, 70, 95, 0, "APPROVE", {}),
      Profile(79, 100, 100, 100, "NEEDS_EDIT", {"off-category"}),
      Profile(80, 69, 95, 0, "NEEDS_EDIT", {"cgi look"}),
      Profile(80, 70, 94, 0, "NEEDS_EDIT", {"colour shift"}),
      Profile(80, 70, Absent, 0, "APPROVE", {}) }
CandEntries == {Entry(1, p) : p \in CandProfiles}

\* a JSON value: kind "None" is Python None, "falsy" is one of {} [] 0 "" null
\* false, "nondict" a non-empty list, a number, a string or true, "dict" a
\* non-empty object
Json(kind, per, g) == [kind |-> kind, per_image |-> per, global |-> g]
JsonNone == Json("None", <<>>, GlobalAbsent)
Scalars == {Json("falsy", <<>>, GlobalAbsent), Json("nondict", <<>>, GlobalAbsent)}
JsonValues(entries, globals, n) ==
    Scalars
        \cup {Json("dict", per, g) : per \in SeqsUpTo(entries, n), g \in globals}
        \cup {Json("dict", <<NoHashEntry>>, g) : g \in globals}

\* a response text: a JSON value or garbage, bare or inside a ``` fence
\* carrying the tag json or another tag (the fenced ones around a scalar, an
\* empty object or garbage)
Text(fence, body) == [fence |-> fence, body |-> body]
Garbage == Json("garbage", <<>>, GlobalAbsent)
Fenced ==
    {Text(f, b) : f \in {"json", "other"},
                  b \in Scalars \cup {Garbage, Json("dict", <<>>, GlobalAbsent)}}
Texts(bodies) == {Text("none", b) : b \in bodies \cup {Garbage}} \cup Fenced

\* safe_json: strip a ``` fence and a leading json tag, then json.loads; None
\* when that raises (garbage, or a fence tag that is not json left in front)
safe_json(text) ==
    IF text.fence = "other" \/ text.body.kind = "garbage" THEN JsonNone ELSE text.body

\* Python truth of a parsed value
Truthy(j) == j.kind \in {"nondict", "dict"}

-----------------------------------------------------------------------------
(* Scoring and gates *)

\* W_REL*relevance + W_REAL*reality + W_QUAL*quality
Final(rel, real, qual) == W_REL * rel + W_REAL * real + W_QUAL * qual

\* round(v, 3): to the nearest thousandth, i.e. to the nearest 10 units of 1e-4
Round3(v) == ((v + 5) \div 10) * 10

\* node_approval line 346 and node_select_best line 392: missing scores count 0
EntryFinal(x) == Final(Get(x.relevance, 0), Get(x.reality, 0), Get(x.quality, 0))

\* ApprovalGate with a strict comparison of relevance
ApprovalGate_Strict(x) ==
    /\ Get(x.relevance, 0) > RELEVANCE_PASS
    /\ Get(x.reality, 0) >= REALITY_PASS
    /\ Get(x.integrity, 100) >= INTEGRITY_PASS

\* node_approval line 349: a missing integrity counts as 1
ApprovalGate(x) ==
    /\ Get(x.relevance, 0) >= RELEVANCE_PASS
    /\ Get(x.reality, 0) >= REALITY_PASS
    /\ Get(x.integrity, 100) >= INTEGRITY_PASS

\* node_reapproval line 462: every missing score counts as 0
CandScores(x) ==
    [relevance |-> Get(x.relevance, 0), reality |-> Get(x.reality, 0),
     integrity |-> Get(x.integrity, 0), quality |-> Get(x.quality, 0)]

ZeroScores == [relevance |-> 0, reality |-> 0, integrity |-> 0, quality |-> 0]

\* node_reapproval line 463
ReapprovalGate(s) ==
    /\ s.relevance >= RELEVANCE_PASS
    /\ s.reality >= REALITY_PASS
    /\ s.integrity >= INTEGRITY_PASS

-----------------------------------------------------------------------------
(* The run state *)

Feedback(why, next, changes, thresholds) ==
    [why |-> why, next_action |-> next, required_changes |-> changes,
     acceptance_thresholds |-> thresholds]
NoFeedback == Feedback({}, "None", "None", FALSE)

Decision(route, chosen, fb) == [route |-> route, chosen |-> chosen, feedback |-> fb]
NoDecision == Decision("None", NoneHash, NoFeedback)

Best(generated, path, source_hash, final_score, warning) ==
    [generated |-> generated, path |-> path, source_hash |-> source_hash,
     final_score |-> final_score, warning |-> warning]
\* the key "best" absent from the state
NoBest == Best(FALSE, NoPath, NoneHash, Absent, "None")

Message(role, content) == [role |-> role, content |-> content]

\* os.path.join(OUT_DIR, f"{mode}_{run_id}_iter{iter}.png")
OutPath(prefix, id, it) == <<prefix, id, it>>

\* Candidate tagging every candidate with retry index 0
Candidate_NoIndex(path, mode, it) ==
    [path |-> path, mode |-> mode, iter |-> 0, scores |-> ZeroScores,
     approved |-> FALSE, has_meta |-> FALSE]

\* a candidate as the editor or generator records it; scores and approved
\* are added by node_reapproval (has_meta)
Candidate(path, mode, it) ==
    [path |-> path, mode |-> mode, iter |-> it, scores |-> ZeroScores,
     approved |-> FALSE, has_meta |-> FALSE]

NoPlans == [edit |-> "None", gen |-> "None"]
EmptyDb == [runs |-> {}, images |-> <<>>, candidates |-> <<>>, messages |-> <<>>]

\* the second run before it starts: main lines 631-636 with a payload of one
\* image
PeerStart ==
    [pc |-> "ingest", run_id |-> 0, inputs |-> <<1>>, approval |-> <<>>,
     decision |-> NoDecision, iter_count |-> 0, candidates |-> <<>>,
     best |-> NoBest, messages |-> <<>>, plans |-> NoPlans]

\* main lines 631-636 build the initial state from the payload
Init ==
    /\ pc = "ingest"
    /\ err = "none"
    /\ run_id = 0
    /\ inputs \in Payloads(MaxInputs)
    /\ approval = <<>>
    /\ decision = NoDecision
    /\ iter_count = 0
    /\ candidates = <<>>
    /\ best = NoBest
    /\ messages = <<>>
    /\ plans = NoPlans
    /\ files = {}
    /\ db = EmptyDb
    /\ data = JsonNone
    /\ routed = ""
    /\ resp_kind = ""
    /\ peer = PeerStart

\* an exception leaves the node: the run is over and hands back no state
Abort(node) ==
    /\ pc' = "failed"
    /\ err' = node
    /\ data' = JsonNone
    /\ UNCHANGED <<peer, run_id, inputs, approval, decision, iter_count, candidates,
                   best, messages, plans, files, db, routed>>
Raise(node) == Abort(node) /\ UNCHANGED resp_kind

-----------------------------------------------------------------------------
(* ingest *)

node_ingest ==
    /\ pc = "ingest"
    /\ IF \E i \in 1..Len(inputs) : inputs[i] = BadItem
       THEN Raise("ingest")
       ELSE /\ \E now \in Seconds : run_id' = now
            /\ inputs' = inputs
            /\ messages' = Append(messages, Message("system", "ingested"))
            /\ pc' = "approval"
            /\ UNCHANGED <<peer, err, approval, decision, iter_count, candidates, best,
                           plans, files, db, data, routed, resp_kind>>

-----------------------------------------------------------------------------
(* approval *)

\* the fail-open record with every score 0
FailOpenEntry_AllZero(h) ==
    Entry(h, Profile(0, 0, 0, 0, "NEEDS_COMPLETE_CHANGE", {"llm_parse_error"}))

\* the fail-open data recommending an edit
FailOpen_Edit(ins) ==
    Json("dict", [i \in 1..Len(ins) |-> FailOpenEntry_AllZero(ins[i])],
         Global("dict", "NEEDS_EDIT", "could not parse"))

\* lines 332-338: the data substituted for a response safe_json gave up on
FailOpenEntry(h) ==
    Entry(h, Profile(0, 0, 100, 50, "NEEDS_COMPLETE_CHANGE", {"llm_parse_error"}))
FailOpen(ins) ==
    Json("dict", [i \in 1..Len(ins) |-> FailOpenEntry(ins[i])],
         Global("dict", "NEEDS_COMPLETE_CHANGE", "could not parse"))

\* line 339: {d["image_hash"]: d for d in per_image}, a later entry replacing
\* an earlier one with the same fingerprint
ApprovalMap(per) ==
    [h \in {per[i].image_hash : i \in 1..Len(per)} |->
        per[CHOOSE i \in 1..Len(per) :
                /\ per[i].image_hash = h
                /\ \A j \in (i + 1)..Len(per) : per[j].image_hash # h]]

\* lines 344-348: the first entry of maximum score, from best_score = -1.0
RECURSIVE ScanBest(_, _, _, _)
ScanBest(per, i, best_score, best_hash) ==
    IF i > Len(per) THEN [score |-> best_score, hash |-> best_hash]
    ELSE IF EntryFinal(per[i]) > best_score
         THEN ScanBest(per, i + 1, EntryFinal(per[i]), per[i].image_hash)
         ELSE ScanBest(per, i + 1, best_score, best_hash)

\* ScanApproved keeping the first entry that passes (as with a break)
RECURSIVE ScanApproved_First(_, _, _)
ScanApproved_First(per, i, approved_hash) ==
    IF i > Len(per) THEN approved_hash
    ELSE IF ApprovalGate(per[i]) /\ approved_hash = NoneHash
         THEN ScanApproved_First(per, i + 1, per[i].image_hash)
         ELSE ScanApproved_First(per, i + 1, approved_hash)

\* lines 343, 349-350: approved_hash is assigned at every entry that passes
RECURSIVE ScanApproved(_, _, _)
ScanApproved(per, i, approved_hash) ==
    IF i > Len(per) THEN approved_hash
    ELSE IF ApprovalGate(per[i])
         THEN ScanApproved(per, i + 1, per[i].image_hash)
         ELSE ScanApproved(per, i + 1, approved_hash)

\* RouteOf deciding by the relevance heuristic alone
RouteOf_HeuristicOnly(g, per) ==
    IF \E i \in 1..Len(per) : Get(per[i].relevance, 0) >= HEURISTIC_EDIT
    THEN "NEEDS_EDIT"
    ELSE "NEEDS_COMPLETE_CHANGE"

\* lines 358-361
RouteOf(g, per) ==
    LET route == IF g.decision = "None" THEN "NEEDS_COMPLETE_CHANGE" ELSE g.decision
    IN IF route \in {"NEEDS_EDIT", "NEEDS_COMPLETE_CHANGE"} THEN route
       ELSE IF \E i \in 1..Len(per) : Get(per[i].relevance, 0) >= HEURISTIC_EDIT
            THEN "NEEDS_EDIT"
            ELSE "NEEDS_COMPLETE_CHANGE"

\* lines 363-368
RepairFeedback(g, per, route) ==
    LET reasons == UNION {per[i].reasons : i \in 1..Len(per)}
    IN Feedback(IF reasons = {} THEN {"not suitable as feed cover"} ELSE reasons,
                IF route = "NEEDS_EDIT" THEN "EDIT" ELSE "GENERATE",
                IF g.gen_brief # "None" THEN g.gen_brief ELSE "see per-image reasons",
                TRUE)

\* lines 343-370
DecisionOf(d) ==
    LET per == d.per_image
        approved_hash == ScanApproved(per, 1, NoneHash)
    IN IF approved_hash # NoneHash
       THEN Decision("APPROVED", approved_hash,
                     Feedback({"meets relevance, reality, integrity"}, "OUTPUT", "None", FALSE))
       ELSE Decision(RouteOf(d.global, per), ScanBest(per, 1, -10000, NoneHash).hash,
                     RepairFeedback(d.global, per, RouteOf(d.global, per)))

\* what node_approval raises on: a parsed value with no .get (line 339), an
\* entry without image_hash (line 339), a null 'global' read at line 358
ApprovalRaises(d) ==
    \/ d.kind = "nondict"
    \/ \E i \in 1..Len(d.per_image) : d.per_image[i].image_hash = Absent
    \/ /\ d.global.kind = "null"
       /\ ScanApproved(d.per_image, 1, NoneHash) = NoneHash

\* lines 376-382
router(dec) ==
    IF dec.route = "APPROVED" THEN "select_best"
    ELSE IF dec.route = "NEEDS_EDIT" THEN "prompter_edit"
    ELSE "prompter_generate"

\* node_approval when the understanding capability answers with one of resps
approval_on(resps) ==
    /\ pc = "approval"
    /\ \E resp \in resps :
         LET parsed == safe_json(resp)
             d == IF Truthy(parsed) THEN parsed ELSE FailOpen(inputs)
         IN IF ApprovalRaises(d)
            THEN Abort("approval") /\ resp_kind' = parsed.kind
            ELSE /\ approval' = ApprovalMap(d.per_image)
                 /\ decision' = DecisionOf(d)
                 /\ messages' = Append(messages, Message("assistant", "approval"))
                 /\ iter_count' = 0
                 /\ pc' = router(DecisionOf(d))
                 /\ data' = [d EXCEPT !.kind = IF Truthy(parsed) THEN "dict" ELSE parsed.kind]
                 /\ routed' = DecisionOf(d).route
                 /\ resp_kind' = parsed.kind
                 /\ UNCHANGED <<peer, err, run_id, inputs, candidates, best, plans, files, db>>

\* the responses of the understanding capability to the approval request
ApprovalResponses == Texts(JsonValues(Entries, Globals, MaxPerImage))

node_approval == approval_on(ApprovalResponses)

-----------------------------------------------------------------------------
(* Case A: select the best original *)

\* SelectScan taking a later image on a tie
RECURSIVE SelectScan_LastMaximum(_, _, _, _, _)
SelectScan_LastMaximum(ins, appr, i, best_score, best_idx) ==
    IF i > Len(ins) THEN [score |-> best_score, idx |-> best_idx]
    ELSE LET final == IF ins[i] \in DOMAIN appr THEN EntryFinal(appr[ins[i]]) ELSE 0
         IN IF final >= best_score
            THEN SelectScan_LastMaximum(ins, appr, i + 1, final, i)
            ELSE SelectScan_LastMaximum(ins, appr, i + 1, best_score, best_idx)

\* lines 389-394: the index of the first input of maximum score (0: none);
\* an input without a verdict record scores 0
RECURSIVE SelectScan(_, _, _, _, _)
SelectScan(ins, appr, i, best_score, best_idx) ==
    IF i > Len(ins) THEN [score |-> best_score, idx |-> best_idx]
    ELSE LET final == IF ins[i] \in DOMAIN appr THEN EntryFinal(appr[ins[i]]) ELSE 0
         IN IF final > best_score
            THEN SelectScan(ins, appr, i + 1, final, i)
            ELSE SelectScan(ins, appr, i + 1, best_score, best_idx)

node_select_best ==
    /\ pc = "select_best"
    /\ LET sel == SelectScan(inputs, approval, 1, -10000, 0)
       IN IF sel.idx = 0
          THEN Raise("select_best")
          ELSE /\ best' = Best(FALSE, NoPath, inputs[sel.idx], Round3(sel.score), "None")
               /\ decision' = [decision EXCEPT !.route = "A"]
               /\ pc' = "persist"
               /\ data' = JsonNone
               /\ UNCHANGED <<peer, err, run_id, inputs, approval, iter_count, candidates,
                              messages, plans, files, db, routed, resp_kind>>

-----------------------------------------------------------------------------
(* Cases B and C: prompter -> editor / generator -> reapproval *)

\* a planning response: any JSON value; a truthy one is taken as the plan
PlanBodies ==
    {Json(k, <<>>, GlobalAbsent) : k \in {"falsy", "nondict", "dict"}}

\* lines 406 and 502: safe_json(resp) or the built-in default plan
PlanOf(text) == IF Truthy(safe_json(text)) THEN "llm" ELSE "default"

\* the responses of the text capability to a planning request
PlanResponses == Texts(PlanBodies)

node_prompter_edit ==
    /\ pc = "prompter_edit"
    /\ \E resp \in PlanResponses :
         /\ plans' = [plans EXCEPT !.edit = PlanOf(resp)]
         /\ messages' = Append(messages, Message("assistant", "edit_plan"))
    /\ pc' = "editor"
    /\ data' = JsonNone
    /\ UNCHANGED <<peer, err, run_id, inputs, approval, decision, iter_count, candidates,
                   best, files, db, routed, resp_kind>>

node_prompter_generate ==
    /\ pc = "prompter_generate"
    /\ \E resp \in PlanResponses :
         /\ plans' = [plans EXCEPT !.gen = PlanOf(resp)]
         /\ messages' = Append(messages, Message("assistant", "gen_plan"))
    /\ pc' = "generator"
    /\ data' = JsonNone
    /\ UNCHANGED <<peer, err, run_id, inputs, approval, decision, iter_count, candidates,
                   best, files, db, routed, resp_kind>>

\* the image a run produces: a PNG (whether the capability or the local
\* fallback made it) edited or generated for that run's product
Image(kind, of) == [kind |-> kind, of |-> of]

\* open(path, "wb").write(...): the file at path now holds this content
WriteFile(fs, path, content) ==
    {f \in fs : f.path # path} \cup {[path |-> path, content |-> content]}

\* lines 414-415: decision['chosen'] or the first input; FALSE when
\* inputs[0] or next(...) raises
BaseFound(dec, ins) ==
    IF dec.chosen # NoneHash
    THEN \E i \in 1..Len(ins) : ins[i] = dec.chosen
    ELSE Len(ins) > 0

node_editor ==
    /\ pc = "editor"
    /\ IF ~BaseFound(decision, inputs)
       THEN Raise("editor")
       ELSE /\ files' = WriteFile(files, OutPath("edit", run_id, iter_count), Image("edit png", "run"))
            /\ candidates' = Append(candidates,
                    Candidate(OutPath("edit", run_id, iter_count), "edit", iter_count))
            /\ pc' = "reapproval"
            /\ data' = JsonNone
            /\ UNCHANGED <<peer, err, run_id, inputs, approval, decision, iter_count, best,
                           messages, plans, db, routed, resp_kind>>

node_generator ==
    /\ pc = "generator"
    /\ files' = WriteFile(files, OutPath("gen", run_id, iter_count), Image("gen png", "run"))
    /\ candidates' = Append(candidates,
            Candidate(OutPath("gen", run_id, iter_count), "generate", iter_count))
    /\ pc' = "reapproval"
    /\ data' = JsonNone
    /\ UNCHANGED <<peer, err, run_id, inputs, approval, decision, iter_count, best,
                   messages, plans, db, routed, resp_kind>>

\* lines 458-464: the scores and the verdict read from a parsed response
ReapprovalScores(parsed) ==
    IF Truthy(parsed) /\ Len(parsed.per_image) > 0
    THEN CandScores(parsed.per_image[1])
    ELSE ZeroScores

\* lines 471-474 and 488-491
RouteLetter(dec) == IF dec.route = "NEEDS_EDIT" THEN "B" ELSE "C"

\* after_reapproval looping back to the generate chain whatever the route
after_reapproval_OneChain(b, dec) ==
    IF b # NoBest THEN "persist" ELSE "prompter_generate"

\* after_reapproval not looking at best
after_reapproval_IgnoresBest(b, dec) ==
    IF dec.route = "NEEDS_EDIT" \/ dec.route = "B" THEN "prompter_edit"
    ELSE "prompter_generate"

\* lines 599-605
after_reapproval(b, dec) ==
    IF b # NoBest THEN "persist"
    ELSE IF dec.route = "NEEDS_EDIT" THEN "prompter_edit"
    ELSE "prompter_generate"

\* ReapprovalOutcome with the budget test off by one (it + 1 <= MAX_ITERS)
ReapprovalOutcome_OffByOne(scores, cand, it, dec) ==
    LET final == Round3(Final(scores.relevance, scores.reality, scores.quality))
    IN IF ReapprovalGate(scores)
       THEN [best |-> Best(TRUE, cand.path, NoneHash, final, "None"),
             decision |-> [dec EXCEPT !.route = RouteLetter(dec)],
             iter_count |-> it]
       ELSE IF it + 1 <= MAX_ITERS
       THEN [best |-> NoBest,
             decision |-> [dec EXCEPT !.feedback =
                              Feedback({"candidate not yet meeting thresholds"},
                                       dec.route, "None", FALSE)],
             iter_count |-> it + 1]
       ELSE [best |-> Best(TRUE, cand.path, NoneHash, final, "max_iters_reached"),
             decision |-> [dec EXCEPT !.route = RouteLetter(dec)],
             iter_count |-> it]

\* ReapprovalOutcome counting the exhausted attempt as one more retry
ReapprovalOutcome_CountsLast(scores, cand, it, dec) ==
    LET final == Round3(Final(scores.relevance, scores.reality, scores.quality))
    IN IF ReapprovalGate(scores)
       THEN [best |-> Best(TRUE, cand.path, NoneHash, final, "None"),
             decision |-> [dec EXCEPT !.route = RouteLetter(dec)],
             iter_count |-> it]
       ELSE IF it + 1 < MAX_ITERS
       THEN [best |-> NoBest,
             decision |-> [dec EXCEPT !.feedback =
                              Feedback({"candidate not yet meeting thresholds"},
                                       dec.route, "None", FALSE)],
             iter_count |-> it + 1]
       ELSE [best |-> Best(TRUE, cand.path, NoneHash, final, "max_iters_reached"),
             decision |-> [dec EXCEPT !.route = RouteLetter(dec)],
             iter_count |-> it + 1]

\* ReapprovalOutcome flagging an accepted candidate as a forced stop
ReapprovalOutcome_WarnsOnAccept(scores, cand, it, dec) ==
    LET final == Round3(Final(scores.relevance, scores.reality, scores.quality))
    IN IF ~ReapprovalGate(scores) /\ it + 1 < MAX_ITERS
       THEN [best |-> NoBest,
             decision |-> [dec EXCEPT !.feedback =
                              Feedback({"candidate not yet meeting thresholds"},
                                       dec.route, "None", FALSE)],
             iter_count |-> it + 1]
       ELSE [best |-> Best(TRUE, cand.path, NoneHash, final, "max_iters_reached"),
             decision |-> [dec EXCEPT !.route = RouteLetter(dec)],
             iter_count |-> it]

\* ReapprovalOutcome naming the chain's first candidate as Best
ReapprovalOutcome_FirstCandidate(scores, cand, it, dec) ==
    LET final == Round3(Final(scores.relevance, scores.reality, scores.quality))
        first == <<cand.path[1], cand.path[2], 0>>
    IN IF ReapprovalGate(scores)
       THEN [best |-> Best(TRUE, first, NoneHash, final, "None"),
             decision |-> [dec EXCEPT !.route = RouteLetter(dec)],
             iter_count |-> it]
       ELSE IF it + 1 < MAX_ITERS
       THEN [best |-> NoBest,
             decision |-> [dec EXCEPT !.feedback =
                              Feedback({"candidate not yet meeting thresholds"},
                                       dec.route, "None", FALSE)],
             iter_count |-> it + 1]
       ELSE [best |-> Best(TRUE, first, NoneHash, final, "max_iters_reached"),
             decision |-> [dec EXCEPT !.route = RouteLetter(dec)],
             iter_count |-> it]

\* lines 468-492: the state a re-evaluation with these scores leaves
ReapprovalOutcome(scores, cand, it, dec) ==
    LET final == Round3(Final(scores.relevance, scores.reality, scores.quality))
    IN IF ReapprovalGate(scores)
       THEN [best |-> Best(TRUE, cand.path, NoneHash, final, "None"),
             decision |-> [dec EXCEPT !.route = RouteLetter(dec)],
             iter_count |-> it]
       ELSE IF it + 1 < MAX_ITERS
       THEN [best |-> NoBest,
             decision |-> [dec EXCEPT !.feedback =
                              Feedback({"candidate not yet meeting thresholds"},
                                       dec.route, "None", FALSE)],
             iter_count |-> it + 1]
       ELSE [best |-> Best(TRUE, cand.path, NoneHash, final, "max_iters_reached"),
             decision |-> [dec EXCEPT !.route = RouteLetter(dec)],
             iter_count |-> it]

\* node_reapproval when the understanding capability answers with one of resps
reapproval_on(resps) ==
    /\ pc = "reapproval"
    /\ \E resp \in resps :
         LET parsed == safe_json(resp)
             n == Len(candidates)
             scores == ReapprovalScores(parsed)
             out == ReapprovalOutcome(scores, candidates[n], iter_count, decision)
         IN IF parsed.kind = "nondict"
            THEN Raise("reapproval")
            ELSE /\ candidates' = [candidates EXCEPT ![n] =
                        [@ EXCEPT !.scores = scores, !.approved = ReapprovalGate(scores),
                                  !.has_meta = TRUE]]
                 /\ best' = out.best
                 /\ decision' = out.decision
                 /\ iter_count' = out.iter_count
                 /\ pc' = after_reapproval(out.best, out.decision)
                 /\ data' = JsonNone
                 /\ UNCHANGED <<peer, err, run_id, inputs, approval, messages, plans, files,
                                db, routed, resp_kind>>

\* the responses of the understanding capability to a re-evaluation request
ReapprovalResponses == Texts(JsonValues(CandEntries, {GlobalAbsent}, 1))

node_reapproval == reapproval_on(ReapprovalResponses)

-----------------------------------------------------------------------------
(* persist *)

\* line 537: the row of the runs table
RunRow(id, dec, b) ==
    [run_id |-> id, route |-> dec.route, best_path |-> b.path,
     generated |-> b.generated, final_score |-> b.final_score,
     feedback |-> dec.feedback]
\* UpsertRun as a plain INSERT: the row is added, none is replaced
UpsertRun_Insert(runs, row) == runs \cup {row}
\* line 537: INSERT OR REPLACE on the primary key run_id
UpsertRun(runs, row) == {r \in runs : r.run_id # row.run_id} \cup {row}

\* lines 541-546
ImageRows(id, ins, appr, b) ==
    [i \in 1..Len(ins) |->
        [run_id |-> id, image_hash |-> ins[i],
         approval |-> IF ins[i] \in DOMAIN appr THEN {appr[ins[i]]} ELSE {},
         accepted |-> (~b.generated /\ b.source_hash = ins[i])]]

\* lines 549-551
CandidateRows(id, cands, b) ==
    [i \in 1..Len(cands) |->
        [run_id |-> id, path |-> cands[i].path, mode |-> cands[i].mode,
         scores |-> IF cands[i].has_meta THEN {cands[i].scores} ELSE {},
         accepted |-> (b.path = cands[i].path), iter |-> cands[i].iter]]

\* lines 554-555
MessageRows(id, msgs) ==
    [i \in 1..Len(msgs) |-> [run_id |-> id, role |-> msgs[i].role, content |-> msgs[i].content]]

node_persist ==
    /\ pc = "persist"
    /\ \E stored \in BOOLEAN :
         IF ~stored
         THEN Raise("persist")
         ELSE /\ db' = [runs |-> UpsertRun(db.runs, RunRow(run_id, decision, best)),
                        images |-> db.images \o ImageRows(run_id, inputs, approval, best),
                        candidates |-> db.candidates \o CandidateRows(run_id, candidates, best),
                        messages |-> db.messages \o MessageRows(run_id, messages)]
              /\ messages' = Append(messages, Message("system", "persisted to DB"))
              /\ pc' = "END"
              /\ data' = JsonNone
              /\ UNCHANGED <<peer, err, run_id, inputs, approval, decision, iter_count,
                             candidates, best, plans, files, routed, resp_kind>>

-----------------------------------------------------------------------------
(* The graph, build_app lines 566-612 *)

Next ==
    \/ node_ingest
    \/ node_approval
    \/ node_select_best
    \/ node_prompter_edit
    \/ node_editor
    \/ node_prompter_generate
    \/ node_generator
    \/ node_reapproval
    \/ node_persist

Spec == Init /\ [][Next]_vars

\* LangGraph runs the next node of a run that is not over
FairSpec == Spec /\ WF_vars(Next)

-----------------------------------------------------------------------------
(* Two runs of the program side by side.  The second run executes the same  *)
(* nodes on its own state (peer); the two share only the files under        *)
(* OUT_DIR and the database.  Each run's capabilities answer from a small   *)
(* set of responses: unparsable, one image approved, one image to edit.     *)

\* this run's own state
run == <<pc, err, run_id, inputs, approval, decision, iter_count, candidates,
         best, messages, plans, data, routed, resp_kind>>

\* the second in which the second run starts: the same as this run's, or
\* the next one
PeerSeconds == {1, 2}

TwoRunApprovals ==
    {Text("none", Garbage),
     Text("none", Json("dict", <<Entry(1, Profile(80, 70, 95, 0, "APPROVE", {}))>>,
                       Global("dict", "APPROVED", "None"))),
     Text("none", Json("dict", <<Entry(1, Profile(79, 100, 100, 100, "NEEDS_EDIT", {"off-category"}))>>,
                       Global("dict", "NEEDS_EDIT", "None")))}
TwoRunReapprovals ==
    {Text("none", Garbage),
     Text("none", Json("dict", <<Entry(1, Profile(80, 70, 95, 0, "APPROVE", {}))>>,
                       GlobalAbsent))}

\* an exception leaves a node of the second run
PeerRaise == peer' = [peer EXCEPT !.pc = "failed"]

peer_ingest ==
    /\ peer.pc = "ingest"
    /\ IF \E i \in 1..Len(peer.inputs) : peer.inputs[i] = BadItem
       THEN PeerRaise
       ELSE \E now \in PeerSeconds :
                peer' = [peer EXCEPT !.run_id = now,
                                     !.messages = Append(@, Message("system", "ingested")),
                                     !.pc = "approval"]
    /\ UNCHANGED <<run, files, db>>

peer_approval ==
    /\ peer.pc = "approval"
    /\ \E resp \in TwoRunApprovals :
         LET parsed == safe_json(resp)
             d == IF Truthy(parsed) THEN parsed ELSE FailOpen(peer.inputs)
         IN IF ApprovalRaises(d)
            THEN PeerRaise
            ELSE peer' = [peer EXCEPT !.approval = ApprovalMap(d.per_image),
                                      !.decision = DecisionOf(d),
                                      !.messages = Append(@, Message("assistant", "approval")),
                                      !.iter_count = 0,
                                      !.pc = router(DecisionOf(d))]
    /\ UNCHANGED <<run, files, db>>

peer_select_best ==
    /\ peer.pc = "select_best"
    /\ LET sel == SelectScan(peer.inputs, peer.approval, 1, -10000, 0)
       IN IF sel.idx = 0
          THEN PeerRaise
          ELSE peer' = [peer EXCEPT !.best = Best(FALSE, NoPath, peer.inputs[sel.idx],
                                                  Round3(sel.score), "None"),
                                    !.decision.route = "A",
                                    !.pc = "persist"]
    /\ UNCHANGED <<run, files, db>>

peer_prompter_edit ==
    /\ peer.pc = "prompter_edit"
    /\ \E resp \in PlanResponses :
         peer' = [peer EXCEPT !.plans.edit = PlanOf(resp),
                              !.messages = Append(@, Message("assistant", "edit_plan")),
                              !.pc = "editor"]
    /\ UNCHANGED <<run, files, db>>

peer_prompter_generate ==
    /\ peer.pc = "prompter_generate"
    /\ \E resp \in PlanResponses :
         peer' = [peer EXCEPT !.plans.gen = PlanOf(resp),
                              !.messages = Append(@, Message("assistant", "gen_plan")),
                              !.pc = "generator"]
    /\ UNCHANGED <<run, files, db>>

peer_editor ==
    /\ peer.pc = "editor"
    /\ IF ~BaseFound(peer.decision, peer.inputs)
       THEN PeerRaise /\ UNCHANGED files
       ELSE /\ files' = WriteFile(files, OutPath("edit", peer.run_id, peer.iter_count),
                                  Image("edit png", "peer"))
            /\ peer' = [peer EXCEPT
                          !.candidates = Append(@, Candidate(OutPath("edit", peer.run_id, peer.iter_count),
                                                             "edit", peer.iter_count)),
                          !.pc = "reapproval"]
    /\ UNCHANGED <<run, db>>

peer_generator ==
    /\ peer.pc = "generator"
    /\ files' = WriteFile(files, OutPath("gen", peer.run_id, peer.iter_count),
                          Image("gen png", "peer"))
    /\ peer' = [peer EXCEPT
                  !.candidates = Append(@, Candidate(OutPath("gen", peer.run_id, peer.iter_count),
                                                     "generate", peer.iter_count)),
                  !.pc = "reapproval"]
    /\ UNCHANGED <<run, db>>

peer_reapproval ==
    /\ peer.pc = "reapproval"
    /\ \E resp \in TwoRunReapprovals :
         LET parsed == safe_json(resp)
             n == Len(peer.candidates)
             scores == ReapprovalScores(parsed)
             out == ReapprovalOutcome(scores, peer.candidates[n], peer.iter_count, peer.decision)
         IN IF parsed.kind = "nondict"
            THEN PeerRaise
            ELSE peer' = [peer EXCEPT
                            !.candidates[n] = [@ EXCEPT !.scores = scores,
                                                        !.approved = ReapprovalGate(scores),
                                                        !.has_meta = TRUE],
                            !.best = out.best,
                            !.decision = out.decision,
                            !.iter_count = out.iter_count,
                            !.pc = after_reapproval(out.best, out.decision)]
    /\ UNCHANGED <<run, files, db>>

peer_persist ==
    /\ peer.pc = "persist"
    /\ \E stored \in BOOLEAN :
         IF ~stored
         THEN PeerRaise /\ UNCHANGED db
         ELSE /\ db' = [runs |-> UpsertRun(db.runs, RunRow(peer.run_id, peer.decision, peer.best)),
                        images |-> db.images \o ImageRows(peer.run_id, peer.inputs, peer.approval, peer.best),
                        candidates |-> db.candidates \o CandidateRows(peer.run_id, peer.candidates, peer.best),
                        messages |-> db.messages \o MessageRows(peer.run_id, peer.messages)]
              /\ peer' = [peer EXCEPT !.messages = Append(@, Message("system", "persisted to DB")),
                                      !.pc = "END"]
    /\ UNCHANGED <<run, files>>

TwoRunNext ==
    \/ node_ingest
    \/ approval_on(TwoRunApprovals)
    \/ node_select_best
    \/ node_prompter_edit
    \/ node_editor
    \/ node_prompter_generate
    \/ node_generator
    \/ reapproval_on(TwoRunReapprovals)
    \/ node_persist
    \/ peer_ingest
    \/ peer_approval
    \/ peer_select_best
    \/ peer_prompter_edit
    \/ peer_editor
    \/ peer_prompter_generate
    \/ peer_generator
    \/ peer_reapproval
    \/ peer_persist

TwoRunSpec == Init /\ [][TwoRunNext]_vars

-----------------------------------------------------------------------------
(* The acceptance gate on its own: one verdict with all four scores, every  *)
(* score on, just under and away from its threshold, given to the approval  *)
(* pass of a one-image run and to the re-evaluation of a first candidate.   *)

GateVerdicts ==
    {Profile(rel, real, int, qual, "APPROVE", {}) :
        rel \in {0, 79, 80, 100}, real \in {0, 69, 70, 100},
        int \in {0, 94, 95, 100}, qual \in {0, 50, 100}}
GateResponses ==
    {Text("none", Json("dict", <<Entry(1, v)>>, GlobalAbsent)) : v \in GateVerdicts}

\* the run after ingest of one image (approval is next), or at the
\* re-evaluation of the first generated candidate after a fail-open approval
GateInit ==
    /\ err = "none"
    /\ run_id = 1
    /\ inputs = <<1>>
    /\ iter_count = 0
    /\ best = NoBest
    /\ db = EmptyDb
    /\ data = JsonNone
    /\ peer = PeerStart
    /\ \/ /\ pc = "approval"
          /\ approval = <<>>
          /\ decision = NoDecision
          /\ candidates = <<>>
          /\ messages = <<Message("system", "ingested")>>
          /\ plans = NoPlans
          /\ files = {}
          /\ routed = ""
          /\ resp_kind = ""
       \/ /\ pc = "reapproval"
          /\ approval = ApprovalMap(FailOpen(<<1>>).per_image)
          /\ decision = DecisionOf(FailOpen(<<1>>))
          /\ candidates = <<Candidate(OutPath("gen", 1, 0), "generate", 0)>>
          /\ messages = <<Message("system", "ingested"), Message("assistant", "approval"),
                          Message("assistant", "gen_plan")>>
          /\ plans = [NoPlans EXCEPT !.gen = "default"]
          /\ files = WriteFile({}, OutPath("gen", 1, 0), Image("gen png", "run"))
          /\ routed = "NEEDS_COMPLETE_CHANGE"
          /\ resp_kind = "None"

GateNext ==
    \/ approval_on(GateResponses)
    \/ reapproval_on(GateResponses)

GateSpec == GateInit /\ [][GateNext]_vars

-----------------------------------------------------------------------------
(* Vocabulary of the properties *)

\* the run has reached the persist step (persist to run, done, or failed)
AtPersist == pc \in {"persist", "END"} \/ (pc = "failed" /\ err = "persist")

\* node_approval has just completed: data holds what it worked on
AfterApproval == data # JsonNone

\* scores that meet the three acceptance thresholds
MeetsThresholds(x) ==
    /\ x.relevance >= RELEVANCE_PASS
    /\ x.reality >= REALITY_PASS
    /\ x.integrity >= INTEGRITY_PASS

\* a per-image entry the approval pass lets through: the thresholds, an
\* entry without an integrity score counting as integrity 1
PassesApproval(x) ==
    /\ x.relevance >= RELEVANCE_PASS
    /\ x.reality >= REALITY_PASS
    /\ (x.integrity = Absent \/ x.integrity >= INTEGRITY_PASS)

NoCandidateMeets == \A i \in 1..Len(candidates) : ~MeetsThresholds(candidates[i].scores)
Last(seq) == seq[Len(seq)]

-----------------------------------------------------------------------------
\* C1: a repair chain never holds more than MAX_ITERS candidates, and a
\* repair run that reaches persist without any candidate meeting the
\* thresholds has produced exactly MAX_ITERS candidates, its Best is the last
\* one flagged max_iters_reached, and its route is B (edit) or C (generate).
C1_ExhaustedChain ==
    /\ Len(candidates) <= MAX_ITERS
    /\ (AtPersist /\ routed # "APPROVED" /\ NoCandidateMeets) =>
          /\ Len(candidates) = MAX_ITERS
          /\ best # NoBest
          /\ best.warning = "max_iters_reached"
          /\ best.generated
          /\ best.path = Last(candidates).path
          /\ routed = "NEEDS_EDIT" => decision.route = "B"
          /\ routed = "NEEDS_COMPLETE_CHANGE" => decision.route = "C"
          /\ decision.route \in {"B", "C"}

C1_Witness ==
    /\ pc = "END"
    /\ routed = "NEEDS_EDIT"
    /\ NoCandidateMeets
    /\ Len(candidates) = MAX_ITERS
    /\ best.warning = "max_iters_reached"
    /\ decision.route = "B"

-----------------------------------------------------------------------------
\* C2: a run ends only through persist, with Best set: no node between
\* ingestion and persist raises, and the run never reaches persist without a
\* Best.
C2_EveryRunReachesPersistWithBest ==
    /\ pc = "failed" => err \in {"ingest", "persist"}
    /\ pc \in {"persist", "END"} => best # NoBest

-----------------------------------------------------------------------------
\* C3: at persist the route is one of A, B, C and matches the branch the
\* approval pass chose: A iff APPROVED (Best not generated, no candidate),
\* B iff NEEDS_EDIT (all candidates edits), C iff NEEDS_COMPLETE_CHANGE (all
\* candidates generated); a run never mixes edit and generate candidates.
C3_RouteLetterMatchesBranch ==
    /\ \A i, j \in 1..Len(candidates) : candidates[i].mode = candidates[j].mode
    /\ AtPersist =>
          /\ decision.route \in {"A", "B", "C"}
          /\ decision.route = "A" <=> routed = "APPROVED"
          /\ decision.route = "B" <=> routed = "NEEDS_EDIT"
          /\ decision.route = "C" <=> routed = "NEEDS_COMPLETE_CHANGE"
          /\ decision.route = "A" => ~best.generated /\ candidates = <<>>
          /\ decision.route = "B" =>
                /\ candidates # <<>>
                /\ \A i \in 1..Len(candidates) : candidates[i].mode = "edit"
          /\ decision.route = "C" =>
                /\ candidates # <<>>
                /\ \A i \in 1..Len(candidates) : candidates[i].mode = "generate"

C3_Witness ==
    /\ pc = "END"
    /\ decision.route = "B"
    /\ routed = "NEEDS_EDIT"
    /\ Len(candidates) = 2
    /\ \A i \in 1..Len(candidates) : candidates[i].mode = "edit"

-----------------------------------------------------------------------------
\* C4: once Best is set, the only step the run takes is persist, and no step
\* changes Best again.
C4_BestSetOnce ==
    [][best # NoBest => (pc = "persist" /\ pc' \in {"END", "failed"} /\ best' = best)]_vars

C4_Witness ==
    /\ pc = "END"
    /\ best # NoBest
    /\ best.generated
    /\ Len(candidates) = 1

-----------------------------------------------------------------------------
\* C5: iter_count never exceeds MAX_ITERS; a re-evaluation that fails with
\* the budget spent (iter_count + 1 >= MAX_ITERS) leaves the counter as it
\* is, sets Best with the warning and goes to persist, while one that fails
\* with budget left adds one to the counter and goes back to a prompter.
C5_RetryBudget ==
    /\ [](iter_count <= MAX_ITERS)
    /\ [][(pc = "reapproval" /\ pc' # "failed" /\ ~MeetsThresholds(Last(candidates').scores)) =>
            IF iter_count + 1 >= MAX_ITERS
            THEN /\ iter_count' = iter_count
                 /\ best'.warning = "max_iters_reached"
                 /\ pc' = "persist"
            ELSE /\ iter_count' = iter_count + 1
                 /\ best' = NoBest
                 /\ pc' \in {"prompter_edit", "prompter_generate"}]_vars

C5_Witness ==
    /\ pc = "persist"
    /\ best.warning = "max_iters_reached"
    /\ iter_count = MAX_ITERS - 1
    /\ Len(candidates) = MAX_ITERS

-----------------------------------------------------------------------------
\* the positions of the response's per-image entries the approval pass lets
\* through
Passing == {i \in 1..Len(data.per_image) : PassesApproval(data.per_image[i])}
\* the positions of the entries that meet the thresholds with every score
\* present
Meeting ==
    {i \in 1..Len(data.per_image) :
        /\ data.per_image[i].integrity # Absent
        /\ MeetsThresholds(data.per_image[i])}
Min(S) == CHOOSE i \in S : \A j \in S : i <= j
\* the response answers the images sent: one entry per input image, in input
\* order, under its fingerprint
AnswersInputs ==
    /\ inputs # <<>>
    /\ Len(data.per_image) = Len(inputs)
    /\ \A i \in 1..Len(inputs) : data.per_image[i].image_hash = inputs[i]
Max(S) == CHOOSE i \in S : \A j \in S : i >= j

\* the weighted score 0.70*relevance + 0.20*reality + 0.10*quality
Weighted(x) == 70 * x.relevance + 20 * x.reality + 10 * x.quality
\* the position of the first entry of maximum weighted score
FirstMax(per) ==
    CHOOSE i \in 1..Len(per) :
        /\ \A j \in 1..Len(per) : Weighted(per[j]) <= Weighted(per[i])
        /\ \A j \in 1..(i - 1) : Weighted(per[j]) < Weighted(per[i])

-----------------------------------------------------------------------------
\* the route the relevance heuristic gives
Heuristic(per) ==
    IF \E i \in 1..Len(per) : per[i].relevance >= HEURISTIC_EDIT
    THEN "NEEDS_EDIT"
    ELSE "NEEDS_COMPLETE_CHANGE"

\* C7: after the approval pass of a response that answers the images sent,
\* when no entry passes, the route is the
\* global recommendation if that is NEEDS_EDIT or NEEDS_COMPLETE_CHANGE and
\* the heuristic's route for every other recommendation (APPROVED, unknown,
\* null or absent); chosen is the fingerprint of the maximum-score image.
C7_RouteWhenNoneAcceptable ==
    (AfterApproval /\ AnswersInputs /\ Passing = {}) =>
        /\ decision.route =
              IF data.global.decision \in {"NEEDS_EDIT", "NEEDS_COMPLETE_CHANGE"}
              THEN data.global.decision
              ELSE Heuristic(data.per_image)
        /\ decision.chosen = inputs[FirstMax(data.per_image)]

-----------------------------------------------------------------------------
-----------------------------------------------------------------------------
\* C9: when safe_json gives up on the initial understanding response, the
\* approval step does not raise; it leaves route NEEDS_COMPLETE_CHANGE and
\* iter_count 0 and hands the run to the generate chain, and the run reaches
\* persist with route C.
C9_UnparsableFailsOpen ==
    resp_kind = "None" =>
        /\ ~(pc = "failed" /\ err = "approval")
        /\ routed = "NEEDS_COMPLETE_CHANGE"
        /\ AfterApproval =>
              /\ decision.route = "NEEDS_COMPLETE_CHANGE"
              /\ iter_count = 0
              /\ pc = "prompter_generate"
        /\ pc \in {"persist", "END"} => decision.route = "C"
        /\ \A i \in 1..Len(candidates) : candidates[i].mode = "generate"

C9_Witness ==
    /\ resp_kind = "None"
    /\ pc = "END"
    /\ decision.route = "C"
    /\ inputs # <<>>

-----------------------------------------------------------------------------
C7_HoldsWithRecommendation ==
    data.global.decision # "None" => C7_RouteWhenNoneAcceptable

-----------------------------------------------------------------------------
\* the fingerprints of the run's input images
InputHashes == {inputs[i] : i \in 1..Len(inputs)}
\* node_approval has completed in this run
ApprovalDone == routed # ""

\* C11: once the approval pass has completed, whatever the understanding
\* response was, the verdict map holds a record for every input image and for
\* no other fingerprint, each record filed under its own fingerprint.
C11_OneRecordPerInput ==
    ApprovalDone =>
        /\ DOMAIN approval = InputHashes
        /\ \A h \in DOMAIN approval : approval[h].image_hash = h

-----------------------------------------------------------------------------
\* the plans made so far: the planning messages of the trace
PlansMade ==
    Cardinality({i \in 1..Len(messages) : messages[i].content \in {"edit_plan", "gen_plan"}})

\* C12: a repair chain whose first candidate was re-evaluated and meets the
\* thresholds has made exactly one plan and one candidate, its retry counter
\* is 0, Best is that candidate with generated = true, its weighted score and
\* no warning, the route is B or C, and the run is at persist.
C12_FirstCandidateAccepted ==
    (candidates # <<>> /\ candidates[1].has_meta /\ MeetsThresholds(candidates[1].scores)) =>
        /\ Len(candidates) = 1
        /\ PlansMade = 1
        /\ iter_count = 0
        /\ candidates[1].approved
        /\ best = Best(TRUE, candidates[1].path, NoneHash,
                       Round3(Weighted(candidates[1].scores)), "None")
        /\ decision.route = IF candidates[1].mode = "edit" THEN "B" ELSE "C"
        /\ AtPersist

C12_Witness ==
    /\ pc = "END"
    /\ Len(candidates) = 1
    /\ candidates[1].mode = "edit"
    /\ MeetsThresholds(candidates[1].scores)
    /\ iter_count = 0
    /\ best.generated
    /\ best.warning = "None"
    /\ best.path = candidates[1].path

-----------------------------------------------------------------------------
\* the weighted score select_best gives the i-th input image: that of its
\* verdict record, a score the record lacks counting 0, and 0 for an image
\* without a record
InputScore(i) ==
    IF inputs[i] \in DOMAIN approval
    THEN LET a == approval[inputs[i]]
         IN 70 * (IF a.relevance = Absent THEN 0 ELSE a.relevance)
              + 20 * (IF a.reality = Absent THEN 0 ELSE a.reality)
              + 10 * (IF a.quality = Absent THEN 0 ELSE a.quality)
    ELSE 0
\* the position of the first input image of maximum weighted score
FirstBestInput ==
    CHOOSE i \in 1..Len(inputs) :
        /\ \A j \in 1..Len(inputs) : InputScore(j) <= InputScore(i)
        /\ \A j \in 1..(i - 1) : InputScore(j) < InputScore(i)

\* C13: when select_best has run (route A), Best is the original image of
\* maximum weighted score over the input images, the first of them in input
\* order on a tie, with generated = false, no path, and that score.
C13_SelectBestFirstMaximum ==
    decision.route = "A" =>
        /\ inputs # <<>>
        /\ ~best.generated
        /\ best.path = NoPath
        /\ best.source_hash = inputs[FirstBestInput]
        /\ best.final_score = Round3(InputScore(FirstBestInput))
        /\ best.warning = "None"
        /\ AtPersist

C13_Witness ==
    /\ decision.route = "A"
    /\ Len(inputs) = 2
    /\ inputs[1] # inputs[2]
    /\ DOMAIN approval = InputHashes
    /\ InputScore(1) = InputScore(2)
    /\ decision.chosen = inputs[2]
    /\ best.source_hash = inputs[1]

-----------------------------------------------------------------------------
\* the second start of GateSpec is a state of the run: Spec reaches it
GateStartReached ==
    /\ pc = "reapproval"
    /\ inputs = <<1>>
    /\ iter_count = 0
    /\ resp_kind = "None"
    /\ plans = [NoPlans EXCEPT !.gen = "default"]
    /\ candidates = <<Candidate(OutPath("gen", 1, 0), "generate", 0)>>
    /\ files = WriteFile({}, OutPath("gen", 1, 0), Image("gen png", "run"))
    /\ approval = ApprovalMap(FailOpen(<<1>>).per_image)
    /\ decision = DecisionOf(FailOpen(<<1>>))
    /\ Len(messages) = 3

\* two verdicts that differ at most in quality
SameButQuality(v, w) ==
    /\ v.relevance = w.relevance
    /\ v.reality = w.reality
    /\ v.integrity = w.integrity
\* w is v with relevance, reality or integrity raised
Raised(v, w) ==
    /\ w.relevance >= v.relevance
    /\ w.reality >= v.reality
    /\ w.integrity >= v.integrity

\* C14: a verdict with all four scores makes the original (approval pass:
\* route APPROVED, next step select_best) or the candidate (re-evaluation:
\* approved, Best set without warning) acceptable iff relevance >= 0.80,
\* reality >= 0.70 and integrity >= 0.95; the gate gives the same outcome to
\* every verdict that differs only in quality, and accepts every verdict
\* obtained by raising the scores of an accepted one.
C14_Gate ==
    /\ (AfterApproval /\ Len(data.per_image) = 1) =>
          LET v == data.per_image[1]
              ok == decision.route = "APPROVED"
          IN /\ ok <=> MeetsThresholds(v)
             /\ ok <=> pc = "select_best"
             /\ \A w \in GateVerdicts :
                   /\ SameButQuality(v, w) => (ApprovalGate(w) <=> ok)
                   /\ (ok /\ Raised(v, w)) => ApprovalGate(w)
    /\ (candidates # <<>> /\ Last(candidates).has_meta) =>
          LET v == Last(candidates).scores
              ok == Last(candidates).approved
          IN /\ ok <=> MeetsThresholds(v)
             /\ ok <=> (best # NoBest /\ best.warning = "None")
             /\ \A w \in GateVerdicts :
                   /\ SameButQuality(v, w) => (ReapprovalGate(w) <=> ok)
                   /\ (ok /\ Raised(v, w)) => ReapprovalGate(w)

C14_Witness ==
    /\ AfterApproval
    /\ Len(data.per_image) = 1
    /\ data.per_image[1].relevance = 80
    /\ data.per_image[1].reality = 70
    /\ data.per_image[1].integrity = 95
    /\ data.per_image[1].quality = 0
    /\ decision.route = "APPROVED"
    /\ pc = "select_best"

-----------------------------------------------------------------------------
\* the files a run's candidates name hold the images of that run
OwnFiles(cands, who) ==
    \A i \in 1..Len(cands) :
        \A f \in files : f.path = cands[i].path => f.content.of = who

\* C15: with a second run executing alongside, under every interleaving and
\* whatever the two start times, the image files of each run's candidates
\* (those it re-evaluates) are the ones that run wrote, and the run record
\* stored for a finished run is the one that run stored.
C15_RunsIsolated ==
    /\ OwnFiles(candidates, "run")
    /\ OwnFiles(peer.candidates, "peer")
    /\ pc = "END" => RunRow(run_id, decision, best) \in db.runs
    /\ peer.pc = "END" => RunRow(peer.run_id, peer.decision, peer.best) \in db.runs

-----------------------------------------------------------------------------
\* C16: no response of the understanding capability is fatal: neither the
\* approval pass nor a re-evaluation raises, and once the approval pass has
\* seen a response the run has a Decision.
C16_ResponsesNeverFatal ==
    /\ ~(pc = "failed" /\ err \in {"approval", "reapproval"})
    /\ resp_kind # "" => decision # NoDecision

-----------------------------------------------------------------------------
\* the rows of the runs table stored under an identifier
RunRowsOf(id) == {r \in db.runs : r.run_id = id}
\* one row per identifier in the runs table
OneRowPerRun == \A r1, r2 \in db.runs : r1.run_id = r2.run_id => r1 = r2

\* C17: the runs table never holds two rows with one identifier, and after
\* every persist (of either run, the first or the second under that
\* identifier) the only row of that identifier holds what this persist
\* stored, the rows of other identifiers being left as they were.
C17_UpsertByRunId ==
    /\ []OneRowPerRun
    /\ [][(pc = "persist" /\ pc' = "END") =>
            /\ {r \in db'.runs : r.run_id = run_id} = {RunRow(run_id, decision, best)}
            /\ {r \in db'.runs : r.run_id # run_id} = {r \in db.runs : r.run_id # run_id}]_vars
    /\ [][(peer.pc = "persist" /\ peer'.pc = "END") =>
            /\ {r \in db'.runs : r.run_id = peer.run_id} =
                  {RunRow(peer.run_id, peer.decision, peer.best)}
            /\ {r \in db'.runs : r.run_id # peer.run_id} =
                  {r \in db.runs : r.run_id # peer.run_id}]_vars

\* both runs persisted under one identifier with different results, this run
\* last: the one row is this run's
C17_Witness ==
    /\ pc = "END"
    /\ peer.pc = "END"
    /\ run_id = peer.run_id
    /\ RunRow(run_id, decision, best) # RunRow(peer.run_id, peer.decision, peer.best)
    /\ db.runs = {RunRow(run_id, decision, best)}

-----------------------------------------------------------------------------
\* the two runs ended in the same final state under the same identifier
SameFinalState ==
    /\ run_id = peer.run_id
    /\ inputs = peer.inputs
    /\ approval = peer.approval
    /\ decision = peer.decision
    /\ iter_count = peer.iter_count
    /\ candidates = peer.candidates
    /\ best = peer.best
    /\ messages = peer.messages
    /\ plans = peer.plans
\* the rows of a table stored under this run's identifier
OwnRows(table) == SelectSeq(table, LAMBDA r : r.run_id = run_id)
\* the message trace as it was when persist stored it
StoredTrace == SubSeq(messages, 1, Len(messages) - 1)

\* C18: when the same final state has been persisted twice under one
\* identifier, the database holds for that identifier what one persist
\* stores: one run row, one row per input image, one row per candidate, one
\* row per message of the trace.
C18_PersistTwiceSameAsOnce ==
    (pc = "END" /\ peer.pc = "END" /\ SameFinalState) =>
        /\ RunRowsOf(run_id) = {RunRow(run_id, decision, best)}
        /\ OwnRows(db.images) = ImageRows(run_id, inputs, approval, best)
        /\ OwnRows(db.candidates) = CandidateRows(run_id, candidates, best)
        /\ OwnRows(db.messages) = MessageRows(run_id, StoredTrace)

-----------------------------------------------------------------------------
\* C19: whenever Best is a generated image, it is the last candidate of the
\* list, the one of highest retry index, with that candidate's weighted
\* score, whatever the earlier candidates scored.
C19_BestIsLastCandidate ==
    best.generated =>
        /\ candidates # <<>>
        /\ best.path = Last(candidates).path
        /\ best.final_score = Round3(Weighted(Last(candidates).scores))
        /\ \A i \in 1..(Len(candidates) - 1) :
              /\ candidates[i].iter < Last(candidates).iter
              /\ candidates[i].path # best.path

C19_Witness ==
    /\ best.generated
    /\ Len(candidates) = 2
    /\ Weighted(candidates[1].scores) > Weighted(candidates[2].scores)
    /\ best.path = candidates[2].path
    /\ best.final_score = Round3(Weighted(candidates[2].scores))

-----------------------------------------------------------------------------
\* C20: the k-th candidate (from 0) carries retry index k; there are
\* iter_count candidates while the current cycle plans or produces and
\* iter_count + 1 once it has produced; a repair run at persist has used
\* (candidates - 1) retries, and a run on route A has used none and has no
\* candidate.
C20_RetryIndex ==
    /\ \A k \in 1..Len(candidates) : candidates[k].iter = k - 1
    /\ pc \in {"prompter_edit", "editor", "prompter_generate", "generator"} =>
          Len(candidates) = iter_count
    /\ pc = "reapproval" => Len(candidates) = iter_count + 1
    /\ (pc \in {"persist", "END"} /\ decision.route \in {"B", "C"}) =>
          iter_count = Len(candidates) - 1
    /\ decision.route = "A" => (iter_count = 0 /\ candidates = <<>>)

C20_Witness ==
    /\ pc = "END"
    /\ decision.route = "B"
    /\ Len(candidates) = 2
    /\ candidates[2].iter = 1
    /\ iter_count = 1

-----------------------------------------------------------------------------
\* every input image has a verdict record, with all four scores
AllInputsScored ==
    /\ DOMAIN approval = InputHashes
    /\ \A h \in DOMAIN approval :
          /\ approval[h].relevance # Absent
          /\ approval[h].reality # Absent
          /\ approval[h].integrity # Absent
          /\ approval[h].quality # Absent

\* the image the approval pass approved has a verdict that meets the
\* thresholds
ChosenMeets ==
    /\ decision.chosen \in DOMAIN approval
    /\ MeetsThresholds(approval[decision.chosen])

\* C21: on route A, when every input image has a fully scored verdict and
\* the approved one meets the thresholds, the original image Best names
\* meets the acceptance thresholds.
C21_RouteAOutputPassedGate ==
    (decision.route = "A" /\ AllInputsScored /\ ChosenMeets) =>
        /\ best.source_hash \in DOMAIN approval
        /\ MeetsThresholds(approval[best.source_hash])

-----------------------------------------------------------------------------
\* C22: the editor never fails to find its base image: when the production
\* step of the edit chain is about to run, chosen names an input image, or is
\* empty with at least one input image.
C22_EditorFindsBase ==
    /\ ~(pc = "failed" /\ err = "editor")
    /\ pc = "editor" =>
          \/ decision.chosen \in InputHashes
          \/ decision.chosen = NoneHash /\ inputs # <<>>

-----------------------------------------------------------------------------
\* C23: the approval pass of a one-image run accepts the entry of the
\* response exactly when the re-evaluation gate (lines 462-463) accepts the
\* same entry, whichever of its scores are missing.
C23_SameGate ==
    (AfterApproval /\ AnswersInputs /\ Len(data.per_image) = 1) =>
        (decision.route = "APPROVED" <=> ReapprovalGate(CandScores(data.per_image[1])))

-----------------------------------------------------------------------------
\* the positions of the candidate rows stored as accepted
AcceptedRows == {i \in 1..Len(db.candidates) : db.candidates[i].accepted}

\* C24: of the rows a finished run stored, a candidate row has
\* accepted = 1 only if the candidate's re-evaluation met the thresholds, and
\* at most one row is accepted.
C24_AcceptedOnlyIfApproved ==
    pc = "END" =>
        /\ Len(db.candidates) = Len(candidates)
        /\ \A i \in AcceptedRows : candidates[i].approved
        /\ Cardinality(AcceptedRows) <= 1

\* what persist stores instead: a candidate row has accepted = 1 exactly
\* when the candidate is the one Best names, the last of the run, whether it
\* met the thresholds or the retry budget ran out; a repair run stores
\* exactly one accepted row and a run on route A none
C24_AcceptedIsBest ==
    pc = "END" =>
        /\ Len(db.candidates) = Len(candidates)
        /\ \A i \in 1..Len(candidates) :
              /\ db.candidates[i].path = candidates[i].path
              /\ db.candidates[i].accepted <=> (best.generated /\ best.path = candidates[i].path)
              /\ db.candidates[i].accepted <=> (i = Len(candidates))
        /\ Cardinality(AcceptedRows) <= 1
        /\ decision.route \in {"B", "C"} => Cardinality(AcceptedRows) = 1
        /\ decision.route = "A" => AcceptedRows = {}

\* a run that exhausted its budget and stored its last candidate as accepted
C24_ExhaustedStoredAccepted ==
    /\ pc = "END"
    /\ Len(candidates) = 2
    /\ ~candidates[1].approved
    /\ ~candidates[2].approved
    /\ best.warning = "max_iters_reached"
    /\ AcceptedRows = {2}

====
